---------------------------- MODULE Spec2Model ----------------------------
(***************************************************************************)
(* Model of squire-sqlite3-src (src/lib.rs): the Setting registry, its key *)
(* extraction, the Config store (new / default / get / set) and the        *)
(* rendering of a Config into the preprocessor definitions handed to the   *)
(* native compiler driver (cc::Build).                                     *)
(***************************************************************************)
EXTENDS Integers, Sequences, FiniteSets

(***************************************************************************)
(* Bounds of the model.                                                    *)
(***************************************************************************)
\* longest sequence handed to Config::new in specification Spec
MaxInit == 2
\* most Config::set calls in one behaviour of specification Spec
MaxSets == 2
\* HashMap iteration orders explored: one per hash seed 0..MaxSeed
MaxSeed == 1

(***************************************************************************)
(* Data model.  Option<T> is a sequence of length at most one: None is     *)
(* << >> and Some(x) is <<x>>.  A Setting is a record [tag, value]: tag is *)
(* the variant's name, value its payload.                                  *)
(***************************************************************************)
None == << >>
Some(x) == <<x>>

\* enum Synchronous, in declaration order
Synchronous == {"Off", "Normal", "Full", "Extra"}
\* enum Threading
Threading == {"SingleThread", "MultiThread", "Serialized"}
\* enum TemporaryStorage
TemporaryStorage == {"AlwaysFilesystem", "DefaultFilesystem", "DefaultMemory", "AlwaysMemory"}
\* struct DoubleQuotedStrings { in_ddl, in_dml }
DoubleQuotedStrings == [in_ddl : BOOLEAN, in_dml : BOOLEAN]
\* #[derive(Default)] on DoubleQuotedStrings: both fields false
DoubleQuotedStringsDefault == [in_ddl |-> FALSE, in_dml |-> FALSE]
\* the usize payloads the model draws from
UsizeValues == {0, 10, 500}

\* the variants of enum Setting, in declaration order
VariantNames ==
  <<
    "DoubleQuotedStrings", "Threading", "Debug",
    "Sync", "WalSync", "DefaultAutomaticIndex",
    "DefaultAutomaticVacuum", "DefaultForeignKeys", "DefaultMemoryStatus",
    "EnableAlloca", "EnableApiArmor", "EnableAuthorization",
    "EnableAutomaticIndex", "EnableAutomaticInitialize", "EnableAutomaticReset",
    "EnableBlobIo", "EnableColumnDeclaredType", "EnableColumnMetadata",
    "EnableDatabasePagesVirtualTable", "EnableDatabaseStatisticsVirtualTable", "EnableDatabaseUri",
    "EnableDeprecated", "EnableGeopoly", "EnableGetTable",
    "EnableFts3", "EnableFts5", "EnableJson",
    "EnableLoadExtension", "EnableMemoryManagement", "EnableNormalizeSql",
    "EnablePreUpdateHook", "EnableProgressCallback", "EnableRtree",
    "EnableStat4", "EnableSerialize", "EnableSession",
    "EnableSnapshot", "EnableSharedCache", "EnableSoundex",
    "EnableTclVariables", "EnableTemporaryDatabase", "EnableTrace",
    "EnableUtf16", "EnableVirtualTables", "EnableWriteAheadLog",
    "LikeOperatorCaseSensitive", "LikeOperatorMatchesBlob", "MaxAttachedDatabases",
    "MaxColumns", "MaxExpressionDepth", "MaxJsonDepth",
    "MaxVariables", "SecureDelete", "TemporaryStorage",
    "TrustedSchema"
  >>

\* the payload type each variant of enum Setting carries
PayloadType(tag) ==
  CASE tag \in {"DoubleQuotedStrings"} -> "DoubleQuotedStrings"
    [] tag \in {"Threading"} -> "Threading"
    [] tag \in {"Sync", "WalSync"} -> "Synchronous"
    [] tag \in {"TemporaryStorage"} -> "TemporaryStorage"
    [] tag \in {"MaxAttachedDatabases", "MaxColumns", "MaxExpressionDepth", "MaxJsonDepth", "MaxVariables"} -> "usize"
    [] OTHER -> "bool"

\* the values a payload of the given type ranges over
PayloadValues(ty) ==
  CASE ty = "bool" -> BOOLEAN
    [] ty = "usize" -> UsizeValues
    [] ty = "Synchronous" -> Synchronous
    [] ty = "Threading" -> Threading
    [] ty = "TemporaryStorage" -> TemporaryStorage
    [] ty = "DoubleQuotedStrings" -> DoubleQuotedStrings

\* constructor of a Setting value: Setting::Tag(value)
Setting(tag, value) == [tag |-> tag, value |-> value]

\* every Setting the model can construct
AllSettings ==
  UNION {{Setting(VariantNames[i], v) : v \in PayloadValues(PayloadType(VariantNames[i]))} :
         i \in 1..Len(VariantNames)}

\* strum EnumDiscriminants: SettingKey has one fieldless variant per Setting
\* variant, in the same order; a key is its position in the declaration.
SettingKey == 0..(Len(VariantNames) - 1)

\* the SettingKey variant generated for each Setting variant, by name
KeyIndex ==
  [tag \in {VariantNames[i] : i \in 1..Len(VariantNames)} |->
     (CHOOSE i \in 1..Len(VariantNames) : VariantNames[i] = tag) - 1]

\* the SettingKey variant named like the given Setting variant
KeyNamed(tag) == KeyIndex[tag]

\* key extraction as it would be if it went by the payload's type
DiscriminantByPayloadType(setting) ==
  KeyNamed(VariantNames[CHOOSE i \in 1..Len(VariantNames) :
    /\ PayloadType(VariantNames[i]) = PayloadType(setting.tag)
    /\ \A j \in 1..(i - 1) : PayloadType(VariantNames[j]) # PayloadType(setting.tag)])

\* IntoDiscriminant::discriminant(&setting): the key of the setting's variant
Discriminant(setting) == KeyNamed(setting.tag)

(***************************************************************************)
(* Config: a HashMap<SettingKey, Setting>, modelled as a function from the *)
(* keys it holds to the Setting stored under each.                         *)
(***************************************************************************)
\* HashMap::insert: the entry stored under the key, if any, is replaced
HashMapInsert(map, key, value) ==
  [k \in DOMAIN map \cup {key} |-> IF k = key THEN value ELSE map[k]]

\* Config::new as it would be if the earlier of two Settings with one key won
RECURSIVE ConfigNewFirstWins(_)
ConfigNewFirstWins(seq) ==
  IF seq = << >> THEN << >>
  ELSE LET setting == seq[1]
       IN  HashMapInsert(ConfigNewFirstWins(Tail(seq)), Discriminant(setting), setting)

\* Config::new: collect() inserts the (discriminant, setting) pairs in order
RECURSIVE ConfigNew(_)
ConfigNew(seq) ==
  IF seq = << >> THEN << >>
  ELSE LET setting == seq[Len(seq)]
       IN  HashMapInsert(ConfigNew(SubSeq(seq, 1, Len(seq) - 1)),
                         Discriminant(setting), setting)

\* Config::get: a copy of the Setting stored under the key, if any
ConfigGet(settings, key) ==
  IF key \in DOMAIN settings THEN Some(settings[key]) ELSE None

\* Config::set as it would be if an entry already present were kept
ConfigSetKeepExisting(settings, setting) ==
  IF Discriminant(setting) \in DOMAIN settings THEN settings
  ELSE HashMapInsert(settings, Discriminant(setting), setting)

\* Config::set as it would be if it replaced the whole map by the new entry
ConfigSetReplaceAll(settings, setting) ==
  [k \in {Discriminant(setting)} |-> setting]

\* Config::set: the Config's settings after the call
ConfigSet(settings, setting) ==
  HashMapInsert(settings, Discriminant(setting), setting)

\* the Settings of Config::default that do not depend on the build mode
ReleaseDefaults ==
  << Setting("Sync", "Full"),
     Setting("WalSync", "Normal"),
     Setting("Threading", "MultiThread"),
     Setting("DoubleQuotedStrings", DoubleQuotedStringsDefault),
     Setting("DefaultForeignKeys", TRUE),
     Setting("DefaultMemoryStatus", FALSE),
     Setting("EnableAlloca", TRUE),
     Setting("EnableAuthorization", FALSE),
     Setting("EnableAutomaticIndex", TRUE),
     Setting("EnableAutomaticInitialize", TRUE),
     Setting("EnableAutomaticReset", FALSE),
     Setting("EnableBlobIo", FALSE),
     Setting("EnableColumnDeclaredType", FALSE),
     Setting("EnableDatabasePagesVirtualTable", FALSE),
     Setting("EnableDatabaseStatisticsVirtualTable", FALSE),
     Setting("EnableDatabaseUri", TRUE),
     Setting("EnableDeprecated", FALSE),
     Setting("EnableGetTable", FALSE),
     Setting("EnableMemoryManagement", TRUE),
     Setting("EnableProgressCallback", FALSE),
     Setting("EnableSharedCache", FALSE),
     Setting("EnableTrace", FALSE),
     Setting("EnableUtf16", FALSE),
     Setting("EnableVirtualTables", TRUE),
     Setting("EnableWriteAheadLog", TRUE),
     Setting("LikeOperatorMatchesBlob", FALSE),
     Setting("MaxExpressionDepth", 0) >>

\* the Settings of Config::default under #[cfg(debug_assertions)]
DebugDefaults == << Setting("EnableApiArmor", TRUE), Setting("Debug", TRUE) >>

\* Config::default as it would be without the #[cfg(debug_assertions)] gates
DefaultSettingsUngated(debug) == ReleaseDefaults \o DebugDefaults

\* the list Config::default hands to Config::new; debug is cfg!(debug_assertions)
DefaultSettings(debug) ==
  ReleaseDefaults \o (IF debug THEN DebugDefaults ELSE << >>)

\* Config::default
ConfigDefault(debug) == ConfigNew(DefaultSettings(debug))

(***************************************************************************)
(* Rendering.  A cc::Build is modelled by its list of definitions, each a  *)
(* record [name, value] with value an Option<string>.                      *)
(***************************************************************************)
\* cc::Build::new(): no definitions yet
NewBuild == << >>

\* the decimal digits
Digits == <<"0", "1", "2", "3", "4", "5", "6", "7", "8", "9">>

\* usize::to_string as it would be if it emitted the low digit first
RECURSIVE to_string_low_first(_)
to_string_low_first(n) ==
  IF n < 10 THEN Digits[n + 1]
  ELSE Digits[(n % 10) + 1] \o to_string_low_first(n \div 10)

\* usize::to_string: the decimal digits, most significant first
RECURSIVE to_string(_)
to_string(n) ==
  IF n < 10 THEN Digits[n + 1]
  ELSE to_string(n \div 10) \o Digits[(n % 10) + 1]

\* impl SettingValue for bool
BoolApply(self, build, name) ==
  LET value == IF self THEN "1" ELSE "0"
  IN  Append(build, [name |-> name, value |-> Some(value)])

\* impl SettingValue for usize
UsizeApply(self, build, name) ==
  LET value == to_string(self)
  IN  Append(build, [name |-> name, value |-> Some(value)])

\* TemporaryStorage as usize
TemporaryStorageAsUsize(self) ==
  CASE self = "AlwaysFilesystem" -> 0
    [] self = "DefaultFilesystem" -> 1
    [] self = "DefaultMemory" -> 2
    [] self = "AlwaysMemory" -> 3

\* Threading as usize
ThreadingAsUsize(self) ==
  CASE self = "SingleThread" -> 0
    [] self = "MultiThread" -> 1
    [] self = "Serialized" -> 2

\* Synchronous as usize
SynchronousAsUsize(self) ==
  CASE self = "Off" -> 0
    [] self = "Normal" -> 1
    [] self = "Full" -> 2
    [] self = "Extra" -> 3

\* impl SettingValue for TemporaryStorage
TemporaryStorageApply(self, build, name) ==
  UsizeApply(TemporaryStorageAsUsize(self), build, name)

\* impl SettingValue for Threading
ThreadingApply(self, build, name) ==
  UsizeApply(ThreadingAsUsize(self), build, name)

\* impl SettingValue for Synchronous
SynchronousApply(self, build, name) ==
  UsizeApply(SynchronousAsUsize(self), build, name)

\* Setting::define as it would be without the test of enable
SettingDefineAlways(build, name, enable) ==
  Append(build, [name |-> name, value |-> None])

\* Setting::define: the symbol is defined, without a value, only if enable
SettingDefine(build, name, enable) ==
  IF enable THEN Append(build, [name |-> name, value |-> None]) ELSE build

\* Setting::set: value.apply(build, name), dispatched on the value's type
SettingSet(build, name, ty, value) ==
  CASE ty = "bool" -> BoolApply(value, build, name)
    [] ty = "usize" -> UsizeApply(value, build, name)
    [] ty = "TemporaryStorage" -> TemporaryStorageApply(value, build, name)
    [] ty = "Threading" -> ThreadingApply(value, build, name)
    [] ty = "Synchronous" -> SynchronousApply(value, build, name)

\* the packed value as it would be with the two sub-options swapped
DqsValueSwapped(in_ddl, in_dml) ==
  CASE in_dml /\ in_ddl -> 3
    [] in_dml /\ ~in_ddl -> 2
    [] ~in_dml /\ in_ddl -> 1
    [] ~in_dml /\ ~in_ddl -> 0

\* the packed value of the DoubleQuotedStrings arm
DqsValue(in_ddl, in_dml) ==
  CASE in_ddl /\ in_dml -> 3
    [] in_ddl /\ ~in_dml -> 2
    [] ~in_ddl /\ in_dml -> 1
    [] ~in_ddl /\ ~in_dml -> 0

\* Setting::apply, arm DoubleQuotedStrings
ApplyDoubleQuotedStrings(dqs, build) ==
  SettingSet(build, "SQLITE_DQS", "usize", DqsValue(dqs.in_ddl, dqs.in_dml))

\* the EnableFts3 arm as it would be if it named the symbol of the next arm
ApplyEnableFts3NextSymbol(enable, build) ==
  SettingDefine(SettingDefine(build, "SQLITE_ENABLE_FTS3", enable),
                "SQLITE_ENABLE_FTS5", enable)

\* the EnableFts3 arm as it would be if its second symbol ignored the flag
ApplyEnableFts3Unconditional(enable, build) ==
  SettingDefine(SettingDefine(build, "SQLITE_ENABLE_FTS3", enable),
                "SQLITE_ENABLE_FTS3_PARENTHESIS", TRUE)

\* Setting::apply, arm EnableFts3: two symbols from one flag
ApplyEnableFts3(enable, build) ==
  SettingDefine(SettingDefine(build, "SQLITE_ENABLE_FTS3", enable),
                "SQLITE_ENABLE_FTS3_PARENTHESIS", enable)

\* Setting::apply: one arm per variant
SettingApply(self, build) ==
  LET tag == self.tag
      value == self.value
  IN
  CASE tag = "Debug" ->
         SettingDefine(build, "SQLITE_DEBUG", value)
    [] tag = "DefaultAutomaticIndex" ->
         SettingSet(build, "SQLITE_DEFAULT_AUTOMATIC_INDEX", "bool", value)
    [] tag = "DefaultAutomaticVacuum" ->
         SettingSet(build, "SQLITE_DEFAULT_AUTOVACUUM", "bool", value)
    [] tag = "DefaultForeignKeys" ->
         SettingSet(build, "SQLITE_DEFAULT_FOREIGN_KEYS", "bool", value)
    [] tag = "DefaultMemoryStatus" ->
         SettingSet(build, "SQLITE_DEFAULT_MEMSTATUS", "bool", value)
    [] tag = "DoubleQuotedStrings" -> ApplyDoubleQuotedStrings(value, build)
    [] tag = "EnableAlloca" ->
         SettingDefine(build, "SQLITE_USE_ALLOCA", value)
    [] tag = "EnableApiArmor" ->
         SettingDefine(build, "SQLITE_ENABLE_API_ARMOR", value)
    [] tag = "EnableAuthorization" ->
         SettingDefine(build, "SQLITE_OMIT_AUTHORIZATION", ~value)
    [] tag = "EnableAutomaticIndex" ->
         SettingDefine(build, "SQLITE_OMIT_AUTOMATIC_INDEX", ~value)
    [] tag = "EnableAutomaticInitialize" ->
         SettingDefine(build, "SQLITE_OMIT_AUTOINIT", ~value)
    [] tag = "EnableAutomaticReset" ->
         SettingDefine(build, "SQLITE_OMIT_AUTORESET", ~value)
    [] tag = "EnableBlobIo" ->
         SettingDefine(build, "SQLITE_OMIT_INCRBLOB", ~value)
    [] tag = "EnableColumnDeclaredType" ->
         SettingDefine(build, "SQLITE_OMIT_DECLTYPE", ~value)
    [] tag = "EnableColumnMetadata" ->
         SettingDefine(build, "SQLITE_ENABLE_COLUMN_METADATA", value)
    [] tag = "EnableDatabasePagesVirtualTable" ->
         SettingDefine(build, "SQLITE_ENABLE_DBPAGE_VTAB", value)
    [] tag = "EnableDatabaseStatisticsVirtualTable" ->
         SettingDefine(build, "SQLITE_ENABLE_DBSTAT_VTAB", value)
    [] tag = "EnableDatabaseUri" ->
         SettingSet(build, "SQLITE_USE_URI", "bool", value)
    [] tag = "EnableDeprecated" ->
         SettingDefine(build, "SQLITE_OMIT_DEPRECATED", ~value)
    [] tag = "EnableFts3" -> ApplyEnableFts3(value, build)
    [] tag = "EnableFts5" ->
         SettingDefine(build, "SQLITE_ENABLE_FTS5", value)
    [] tag = "EnableGeopoly" ->
         SettingDefine(build, "SQLITE_ENABLE_GEOPOLY", value)
    [] tag = "EnableGetTable" ->
         SettingDefine(build, "SQLITE_OMIT_GET_TABLE", ~value)
    [] tag = "EnableJson" ->
         SettingDefine(build, "SQLITE_OMIT_JSON", ~value)
    [] tag = "EnableLoadExtension" ->
         SettingDefine(build, "SQLITE_OMIT_LOAD_EXTENSION", ~value)
    [] tag = "EnableMemoryManagement" ->
         SettingDefine(build, "SQLITE_ENABLE_MEMORY_MANAGEMENT", value)
    [] tag = "EnableNormalizeSql" ->
         SettingDefine(build, "SQLITE_ENABLE_NORMALIZE", value)
    [] tag = "EnablePreUpdateHook" ->
         SettingDefine(build, "SQLITE_ENABLE_PREUPDATE_HOOK", value)
    [] tag = "EnableProgressCallback" ->
         SettingDefine(build, "SQLITE_OMIT_PROGRESS_CALLBACK", ~value)
    [] tag = "EnableRtree" ->
         SettingDefine(build, "SQLITE_ENABLE_RTREE", value)
    [] tag = "EnableSerialize" ->
         SettingDefine(build, "SQLITE_OMIT_DESERIALIZE", ~value)
    [] tag = "EnableSession" ->
         SettingDefine(build, "SQLITE_ENABLE_SESSION", value)
    [] tag = "EnableSharedCache" ->
         SettingDefine(build, "SQLITE_OMIT_SHARED_CACHE", ~value)
    [] tag = "EnableSnapshot" ->
         SettingDefine(build, "SQLITE_ENABLE_SNAPSHOT", value)
    [] tag = "EnableSoundex" ->
         SettingDefine(build, "SQLITE_SOUNDEX", value)
    [] tag = "EnableStat4" ->
         SettingDefine(build, "SQLITE_ENABLE_STAT4", value)
    [] tag = "EnableTclVariables" ->
         SettingDefine(build, "SQLITE_OMIT_TCL_VARIABLE", ~value)
    [] tag = "EnableTemporaryDatabase" ->
         SettingDefine(build, "SQLITE_OMIT_TEMPDB", ~value)
    [] tag = "EnableTrace" ->
         SettingDefine(build, "SQLITE_OMIT_TRACE", ~value)
    [] tag = "EnableUtf16" ->
         SettingDefine(build, "SQLITE_OMIT_UTF16", ~value)
    [] tag = "EnableVirtualTables" ->
         SettingDefine(build, "SQLITE_OMIT_VIRTUALTABLE", ~value)
    [] tag = "EnableWriteAheadLog" ->
         SettingDefine(build, "SQLITE_OMIT_WAL", ~value)
    [] tag = "LikeOperatorCaseSensitive" ->
         SettingDefine(build, "SQLITE_CASE_SENSITIVE_LIKE", value)
    [] tag = "LikeOperatorMatchesBlob" ->
         SettingDefine(build, "SQLITE_LIKE_DOESNT_MATCH_BLOBS", ~value)
    [] tag = "MaxAttachedDatabases" ->
         SettingSet(build, "SQLITE_MAX_ATTACHED", "usize", value)
    [] tag = "MaxColumns" ->
         SettingSet(build, "SQLITE_MAX_COLUMN", "usize", value)
    [] tag = "MaxExpressionDepth" ->
         SettingSet(build, "SQLITE_MAX_EXPR_DEPTH", "usize", value)
    [] tag = "MaxJsonDepth" ->
         SettingSet(build, "SQLITE_JSON_MAX_DEPTH", "usize", value)
    [] tag = "MaxVariables" ->
         SettingSet(build, "SQLITE_MAX_VARIABLE_NUMBER", "usize", value)
    [] tag = "SecureDelete" ->
         SettingDefine(build, "SQLITE_SECURE_DELETE", value)
    [] tag = "Sync" ->
         SettingSet(build, "SQLITE_DEFAULT_SYNCHRONOUS", "Synchronous", value)
    [] tag = "Threading" ->
         SettingSet(build, "SQLITE_THREADSAFE", "Threading", value)
    [] tag = "TemporaryStorage" ->
         SettingSet(build, "SQLITE_TEMP_STORE", "TemporaryStorage", value)
    [] tag = "TrustedSchema" ->
         SettingSet(build, "SQLITE_TRUSTED_SCHEMA", "bool", value)
    [] tag = "WalSync" ->
         SettingSet(build, "SQLITE_DEFAULT_WAL_SYNCHRONOUS", "Synchronous", value)

(***************************************************************************)
(* HashMap iteration.  std documents the order of HashMap::values as       *)
(* arbitrary; the model explores one order per hash seed.  Seed 0 visits   *)
(* the keys in ascending order, seed 1 in descending order, later seeds in *)
(* orders scattered by a multiplicative hash.                              *)
(***************************************************************************)
HashSeeds == 0..MaxSeed

\* the key whose entry the table hashed with the seed keeps in bucket p
BucketKey(p, seed) ==
  LET mult == IF seed % 2 = 0 THEN (seed \div 2) + 1 ELSE 61 - ((seed + 1) \div 2)
  IN  ((p * mult) % 61) - 1

\* HashMap::values: the stored Settings in iteration order, bucket by bucket
Values(map, seed) ==
  LET keys == SelectSeq([p \in 1..60 |-> BucketKey(p, seed)],
                        LAMBDA k : k \in DOMAIN map)
  IN  [i \in 1..Len(keys) |-> map[keys[i]]]

\* the loop of Config::apply over the values in iteration order
RECURSIVE ApplyEach(_, _)
ApplyEach(values, build) ==
  IF values = << >> THEN build
  ELSE ApplyEach(Tail(values), SettingApply(Head(values), build))

\* Config::apply as it would be if the loop skipped the first value
ConfigApplySkipFirst(settings, build, seed) ==
  LET values == Values(settings, seed)
  IN  ApplyEach(IF values = << >> THEN values ELSE Tail(values), build)

\* Config::apply: every stored Setting is applied to the driver
ConfigApply(settings, build, seed) == ApplyEach(Values(settings, seed), build)

(***************************************************************************)
(* State.                                                                  *)
(***************************************************************************)
VARIABLES
  initial,   \* the sequence of Settings the Config was constructed from
  sets,      \* the arguments of the Config::set calls made so far
  settings,  \* Config.settings
  defines,   \* the definitions of the driver the Config was last applied to
  snap,      \* Some(settings as they were at that rendering), None before
  got        \* Some([key, value, at]): the last Config::get, its result and
             \* the number of set calls that preceded it; None before

vars == <<initial, sets, settings, defines, snap, got>>

\* the Settings specification Spec constructs Configs from and sets
Inputs ==
  { Setting("Sync", "Normal"), Setting("Sync", "Full"),
    Setting("MaxExpressionDepth", 500) }

\* the keys specification Spec looks up
GetKeys == {KeyNamed("Sync"), KeyNamed("WalSync"), KeyNamed("MaxExpressionDepth")}

\* sequences over S of length at most n
SeqsUpTo(S, n) == UNION {[1..m -> S] : m \in 0..n}

\* every Setting supplied so far, oldest first
Log == initial \o sets

\* Config::new(initial) or Config::default() in either build mode
Init ==
  /\ initial \in SeqsUpTo(Inputs, MaxInit) \cup {DefaultSettings(d) : d \in BOOLEAN}
  /\ sets = << >>
  /\ settings = ConfigNew(initial)
  /\ defines = NewBuild
  /\ snap = None
  /\ got = None

\* config.set(setting)
Set(setting) ==
  /\ Len(sets) < MaxSets
  /\ settings' = ConfigSet(settings, setting)
  /\ sets' = Append(sets, setting)
  /\ UNCHANGED <<initial, defines, snap, got>>

\* config.get(key)
Get(key) ==
  /\ got' = Some([key |-> key, value |-> ConfigGet(settings, key), at |-> Len(sets)])
  /\ UNCHANGED <<initial, sets, settings, defines, snap>>

\* build(): a fresh cc::Build, then config.apply(&mut compiler)
Apply(seed) ==
  /\ defines' = ConfigApply(settings, NewBuild, seed)
  /\ snap' = Some(settings)
  /\ UNCHANGED <<initial, sets, settings, got>>

Next ==
  \/ \E setting \in Inputs : Set(setting)
  \/ \E key \in GetKeys : Get(key)
  \/ \E seed \in HashSeeds : Apply(seed)

Spec == Init /\ [][Next]_vars

\* Config::new over one or two arbitrary Settings, then rendered
InitRender ==
  /\ initial \in SeqsUpTo(AllSettings, 2) \ {<< >>}
  /\ sets = << >>
  /\ settings = ConfigNew(initial)
  /\ defines = NewBuild
  /\ snap = None
  /\ got = None

NextRender == \E seed \in HashSeeds : Apply(seed)

SpecRender == InitRender /\ [][NextRender]_vars

(***************************************************************************)
(* Properties.                                                             *)
(***************************************************************************)
\* the Setting with the given key supplied last in the log, if any
LastWritten(log, key) ==
  LET hits == {i \in 1..Len(log) : Discriminant(log[i]) = key}
  IN  IF hits = {} THEN None
      ELSE Some(log[CHOOSE i \in hits : \A j \in hits : j <= i])

\* the keys of the Settings in the log
KeysOf(log) == {Discriminant(log[i]) : i \in 1..Len(log)}

\* C1: for every key, Config::get returns the Setting with that key that was
\* supplied last, by the constructor or by a later Config::set, and None if
\* no Setting with that key was ever supplied; in particular after set(s)
\* twice in a row get(key_of(s)) is s.
C1_GetReturnsLastWritten ==
  /\ \A key \in SettingKey \ KeysOf(Log) : ConfigGet(settings, key) = None
  /\ \A key \in KeysOf(Log) : ConfigGet(settings, key) = LastWritten(Log, key)
  /\ (got # None /\ got[1].at = Len(sets)) =>
        got[1].value = LastWritten(Log, got[1].key)
  /\ (Len(sets) >= 2 /\ sets[Len(sets)] = sets[Len(sets) - 1]) =>
        ConfigGet(settings, Discriminant(sets[Len(sets)])) = Some(sets[Len(sets)])

\* C1 witness: Sync(Normal) constructed, Sync(Full) set twice in a row, then
\* get(Sync) returned Sync(Full)
C1_Witness ==
  /\ initial = <<Setting("Sync", "Normal")>>
  /\ sets = <<Setting("Sync", "Full"), Setting("Sync", "Full")>>
  /\ got = Some([key |-> KeyNamed("Sync"), value |-> Some(Setting("Sync", "Full")),
                 at |-> 2])

\* C2: a Config constructed from a sequence that repeats a key holds one
\* entry for that key, and get returns the Setting latest in the sequence.
C2_NewLastWins ==
  sets = << >> =>
    /\ DOMAIN settings = KeysOf(initial)
    /\ \A i \in 1..Len(initial) :
         (\A j \in (i + 1)..Len(initial) :
            Discriminant(initial[j]) # Discriminant(initial[i]))
         => ConfigGet(settings, Discriminant(initial[i])) = Some(initial[i])
    /\ (got # None /\ got[1].key \in DOMAIN settings) =>
         \E i \in 1..Len(initial) :
           /\ got[1].value = Some(initial[i])
           /\ \A j \in (i + 1)..Len(initial) :
                Discriminant(initial[j]) # got[1].key

\* C2 witness: new([Sync(Normal), Sync(Full)]).get(Sync) returned Sync(Full)
C2_Witness ==
  /\ initial = <<Setting("Sync", "Normal"), Setting("Sync", "Full")>>
  /\ sets = << >>
  /\ Cardinality(DOMAIN settings) = 1
  /\ got = Some([key |-> KeyNamed("Sync"), value |-> Some(Setting("Sync", "Full")),
                 at |-> 0])

\* C3: two Settings of one variant have the same key whatever their
\* payloads, and two Settings of different variants have different keys,
\* also when the variants carry the same payload type (Sync and WalSync).
C3_KeyInjectiveOnVariants ==
  /\ \A i, j \in 1..Len(initial) :
       (Discriminant(initial[i]) = Discriminant(initial[j]))
         <=> (initial[i].tag = initial[j].tag)
  /\ \A i \in 1..Len(initial) : Discriminant(initial[i]) \in SettingKey
  /\ Len(initial) = 2 =>
       (Cardinality(DOMAIN settings) = 1 <=> initial[1].tag = initial[2].tag)

\* C3 witness: Sync(Full) and WalSync(Full), same payload, are stored under
\* two keys
C3_Witness ==
  /\ initial = <<Setting("Sync", "Full"), Setting("WalSync", "Full")>>
  /\ Cardinality(DOMAIN settings) = 2
  /\ Discriminant(initial[1]) # Discriminant(initial[2])

\* the default table of the specification, section 6: seventeen rows, and
\* two more in debug builds
DocumentedDefault(debug) ==
  { Setting("Sync", "Full"),
    Setting("WalSync", "Normal"),
    Setting("Threading", "MultiThread"),
    Setting("DoubleQuotedStrings", [in_ddl |-> FALSE, in_dml |-> FALSE]),
    Setting("DefaultForeignKeys", TRUE),
    Setting("DefaultMemoryStatus", FALSE),
    Setting("EnableAlloca", TRUE),
    Setting("EnableAutomaticIndex", TRUE),
    Setting("EnableAutomaticInitialize", TRUE),
    Setting("EnableDatabaseUri", TRUE),
    Setting("EnableDeprecated", FALSE),
    Setting("EnableMemoryManagement", TRUE),
    Setting("EnableProgressCallback", FALSE),
    Setting("EnableSharedCache", FALSE),
    Setting("EnableTrace", FALSE),
    Setting("LikeOperatorMatchesBlob", FALSE),
    Setting("MaxExpressionDepth", 0) }
  \cup (IF debug
        THEN {Setting("EnableApiArmor", TRUE), Setting("Debug", TRUE)}
        ELSE {})

\* the Settings Config::default stores that the table of section 6 leaves out
UndocumentedDefault ==
  { Setting("EnableAuthorization", FALSE),
    Setting("EnableAutomaticReset", FALSE),
    Setting("EnableBlobIo", FALSE),
    Setting("EnableColumnDeclaredType", FALSE),
    Setting("EnableDatabasePagesVirtualTable", FALSE),
    Setting("EnableDatabaseStatisticsVirtualTable", FALSE),
    Setting("EnableGetTable", FALSE),
    Setting("EnableUtf16", FALSE),
    Setting("EnableVirtualTables", TRUE),
    Setting("EnableWriteAheadLog", TRUE) }

\* the Settings a Config stores
Stored(map) == {map[key] : key \in DOMAIN map}

\* C4 as stated: the Settings of Config::default() are exactly the rows of
\* the documented table, none added and none missing.
C4_DefaultIsExactlyTable ==
  \A debug \in BOOLEAN :
    (initial = DefaultSettings(debug) /\ sets = << >>) =>
      Stored(settings) = DocumentedDefault(debug)

\* C4 as amended: Config::default() stores every row of the documented table
\* with the documented value, and besides them exactly the ten Settings of
\* UndocumentedDefault: 27 Settings in release builds, 29 in debug builds.
C4_DefaultContainsTable ==
  \A debug \in BOOLEAN :
    (initial = DefaultSettings(debug) /\ sets = << >>) =>
      /\ DocumentedDefault(debug) \subseteq Stored(settings)
      /\ Stored(settings) \ DocumentedDefault(debug) = UndocumentedDefault
      /\ Cardinality(DOMAIN settings) = 27 + (IF debug THEN 2 ELSE 0)
      /\ \A key \in DOMAIN settings : Discriminant(settings[key]) = key

\* C4 witness: the Config of Config::default() of a debug build, looked up
C4_Witness ==
  /\ initial = DefaultSettings(TRUE)
  /\ sets = << >>
  /\ ConfigGet(settings, KeyNamed("Debug")) = Some(Setting("Debug", TRUE))
  /\ got = Some([key |-> KeyNamed("MaxExpressionDepth"),
                 value |-> Some(Setting("MaxExpressionDepth", 0)), at |-> 0])

\* the definitions a driver holds, as a set
DefSet(build) == {build[i] : i \in 1..Len(build)}

\* the definitions of a driver other than those of the given symbol
Except(build, name) == {d \in DefSet(build) : d.name # name}

\* C5: default() then set(MaxExpressionDepth(500)) renders the pair
\* (SQLITE_MAX_EXPR_DEPTH, "500") exactly once and no other pair for that
\* symbol, and every other pair as the unmodified default renders it.
C5_OverrideMaxExpressionDepth ==
  \A debug \in BOOLEAN :
    ( /\ initial = DefaultSettings(debug)
      /\ sets = <<Setting("MaxExpressionDepth", 500)>>
      /\ snap = Some(settings) ) =>
      LET hits == {i \in 1..Len(defines) : defines[i].name = "SQLITE_MAX_EXPR_DEPTH"}
          base == ConfigApply(ConfigDefault(debug), NewBuild, 0)
      IN  /\ Cardinality(hits) = 1
          /\ \A i \in hits : defines[i].value = Some("500")
          /\ Except(defines, "SQLITE_MAX_EXPR_DEPTH") = Except(base, "SQLITE_MAX_EXPR_DEPTH")
          /\ Len(defines) = Len(base)
          /\ [name |-> "SQLITE_MAX_EXPR_DEPTH", value |-> Some("0")] \in DefSet(base)

\* C5 witness: the release default overridden with MaxExpressionDepth(500)
\* has been rendered
C5_Witness ==
  /\ initial = DefaultSettings(FALSE)
  /\ sets = <<Setting("MaxExpressionDepth", 500)>>
  /\ snap = Some(settings)
  /\ [name |-> "SQLITE_MAX_EXPR_DEPTH", value |-> Some("500")] \in DefSet(defines)

\* the native symbols that omit a capability: SQLITE_OMIT_* and *_DOESNT_*
OmitSymbols ==
  { "SQLITE_OMIT_AUTHORIZATION", "SQLITE_OMIT_AUTOMATIC_INDEX", "SQLITE_OMIT_AUTOINIT",
    "SQLITE_OMIT_AUTORESET", "SQLITE_OMIT_INCRBLOB", "SQLITE_OMIT_DECLTYPE",
    "SQLITE_OMIT_DEPRECATED", "SQLITE_OMIT_GET_TABLE", "SQLITE_OMIT_JSON",
    "SQLITE_OMIT_LOAD_EXTENSION", "SQLITE_OMIT_PROGRESS_CALLBACK",
    "SQLITE_OMIT_DESERIALIZE", "SQLITE_OMIT_SHARED_CACHE", "SQLITE_OMIT_TCL_VARIABLE",
    "SQLITE_OMIT_TEMPDB", "SQLITE_OMIT_TRACE", "SQLITE_OMIT_UTF16",
    "SQLITE_OMIT_VIRTUALTABLE", "SQLITE_OMIT_WAL", "SQLITE_LIKE_DOESNT_MATCH_BLOBS" }

\* the symbols a driver holds definitions of
Names(build) == {build[i].name : i \in 1..Len(build)}

\* the variant is a flag that some payload renders to an omit symbol
IsInverted(tag) ==
  /\ PayloadType(tag) = "bool"
  /\ \E b \in BOOLEAN :
       Names(SettingApply(Setting(tag, b), NewBuild)) \cap OmitSymbols # {}

DqsDocumented(in_ddl, in_dml) ==
  CASE ~in_ddl /\ ~in_dml -> "0"
    [] ~in_ddl /\ in_dml -> "1"
    [] in_ddl /\ ~in_dml -> "2"
    [] in_ddl /\ in_dml -> "3"

\* C7: DoubleQuotedStrings{in_ddl, in_dml} renders exactly one pair,
\* (SQLITE_DQS, v), v the decimal string of 2*in_ddl + in_dml; the four
\* combinations give four different values.
C7_DoubleQuotedStringsPacked ==
  /\ \A i \in 1..Len(initial) :
       initial[i].tag = "DoubleQuotedStrings" =>
         SettingApply(initial[i], NewBuild) =
           <<[name |-> "SQLITE_DQS",
              value |-> Some(DqsDocumented(initial[i].value.in_ddl,
                                           initial[i].value.in_dml))]>>
  /\ \A i, j \in 1..Len(initial) :
       ( /\ initial[i].tag = "DoubleQuotedStrings"
         /\ initial[j].tag = "DoubleQuotedStrings"
         /\ initial[i].value # initial[j].value ) =>
         SettingApply(initial[i], NewBuild) # SettingApply(initial[j], NewBuild)
  /\ (Len(initial) = 1 /\ snap # None /\ initial[1].tag = "DoubleQuotedStrings") =>
       /\ Len(defines) = 1
       /\ defines[1].name = "SQLITE_DQS"
       /\ defines[1].value \in {Some("0"), Some("1"), Some("2"), Some("3")}
       /\ defines[1].value = Some("2") <=>
            (initial[1].value.in_ddl /\ ~initial[1].value.in_dml)

\* C7 witness: DoubleQuotedStrings{in_ddl: true, in_dml: false} rendered "2"
C7_Witness ==
  /\ initial = <<Setting("DoubleQuotedStrings", [in_ddl |-> TRUE, in_dml |-> FALSE])>>
  /\ snap # None
  /\ defines = <<[name |-> "SQLITE_DQS", value |-> Some("2")]>>

\* C8: rendering is idempotent and does not mutate: a step that is no set
\* leaves the Config's settings as they were, a Config rendered to a second
\* fresh driver gives it the same set of definitions as the first, and a
\* repeated get returns what it returned before, renderings in between or not.
C8_RenderIdempotentNonMutating ==
  [][ /\ sets' = sets => settings' = settings
      /\ (sets' = sets /\ got' = got /\ snap = Some(settings)) =>
           /\ snap' = snap
           /\ DefSet(defines') = DefSet(defines)
      /\ ( /\ sets' = sets
           /\ got # None
           /\ got' # None
           /\ got[1].at = Len(sets)
           /\ got'[1].key = got[1].key ) => got'[1].value = got[1].value
    ]_vars

\* C8 witness: a Config changed by a set and looked up since has been
\* rendered in an order other than that of seed 0
C8_Witness ==
  /\ sets # << >>
  /\ snap = Some(settings)
  /\ got # None
  /\ got[1].at = Len(sets)
  /\ defines = ConfigApply(settings, NewBuild, 1)
  /\ defines # ConfigApply(settings, NewBuild, 0)

\* C9: no symbol is emitted by the renderings of two different stored
\* Settings, so no definition overwrites another and the driver receives
\* the same set of definitions in every iteration order.
C9_SymbolsDistinct ==
  /\ \A i, j \in 1..Len(initial) :
       Discriminant(initial[i]) # Discriminant(initial[j]) =>
         Names(SettingApply(initial[i], NewBuild))
           \cap Names(SettingApply(initial[j], NewBuild)) = {}
  /\ snap # None =>
       /\ \A i, j \in 1..Len(defines) :
            i # j => defines[i].name # defines[j].name
       /\ \A seed \in HashSeeds :
            DefSet(ConfigApply(settings, NewBuild, seed)) = DefSet(defines)

\* C9 witness: EnableFts3(true) and EnableFts5(true) rendered to three
\* definitions of three symbols
C9_Witness ==
  /\ initial = <<Setting("EnableFts3", TRUE), Setting("EnableFts5", TRUE)>>
  /\ snap # None
  /\ Cardinality(Names(defines)) = 3

\* the two definitions of EnableFts3(true), in their order
Fts3Pairs ==
  << [name |-> "SQLITE_ENABLE_FTS3", value |-> None],
     [name |-> "SQLITE_ENABLE_FTS3_PARENTHESIS", value |-> None] >>

\* C10: EnableFts3(true) renders SQLITE_ENABLE_FTS3 and then
\* SQLITE_ENABLE_FTS3_PARENTHESIS, both without value; EnableFts3(false)
\* renders neither; one symbol is never defined without the other.
C10_Fts3FanOut ==
  /\ \A i \in 1..Len(initial) :
       initial[i].tag = "EnableFts3" =>
         SettingApply(initial[i], NewBuild) =
           (IF initial[i].value THEN Fts3Pairs ELSE << >>)
  /\ snap # None =>
       /\ Fts3Pairs[1] \in DefSet(defines) <=> Fts3Pairs[2] \in DefSet(defines)
       /\ \A i \in 1..Len(defines) :
            defines[i].name = "SQLITE_ENABLE_FTS3" =>
              (i < Len(defines) /\ defines[i + 1] = Fts3Pairs[2])
       /\ "SQLITE_ENABLE_FTS3" \in Names(defines) <=>
            Setting("EnableFts3", TRUE) \in Stored(settings)
       /\ "SQLITE_ENABLE_FTS3_PARENTHESIS" \in Names(defines) <=>
            Setting("EnableFts3", TRUE) \in Stored(settings)

\* C10 witness: EnableFts3(true) alone rendered to the two definitions
C10_Witness ==
  /\ initial = <<Setting("EnableFts3", TRUE)>>
  /\ snap # None
  /\ defines = Fts3Pairs


\* C11: Config::set(s) changes only the entry for key_of(s): get of every
\* other key returns what it returned before, no entry is removed, the keys
\* grow by key_of(s) alone and only when it was absent; every stored entry
\* is filed under the key of the Setting it holds.
C11_SetFrame ==
  /\ [][ sets' # sets =>
           LET setting == sets'[Len(sets')]
               key == Discriminant(setting)
           IN  /\ \A other \in SettingKey \ {key} :
                    ConfigGet(settings', other) = ConfigGet(settings, other)
               /\ ConfigGet(settings', key) = Some(setting)
               /\ DOMAIN settings \subseteq DOMAIN settings'
               /\ DOMAIN settings' = DOMAIN settings \cup {key}
               /\ Cardinality(DOMAIN settings') =
                    Cardinality(DOMAIN settings)
                      + (IF key \in DOMAIN settings THEN 0 ELSE 1)
       ]_vars
  /\ [](\A key \in DOMAIN settings : Discriminant(settings[key]) = key)

\* C11 witness: set(MaxExpressionDepth(500)) added a key to a Config that
\* held Sync(Normal), and get(Sync) still returned Sync(Normal)
C11_Witness ==
  /\ initial = <<Setting("Sync", "Normal")>>
  /\ sets = <<Setting("MaxExpressionDepth", 500)>>
  /\ DOMAIN settings = {KeyNamed("Sync"), KeyNamed("MaxExpressionDepth")}
  /\ got = Some([key |-> KeyNamed("Sync"), value |-> Some(Setting("Sync", "Normal")),
                 at |-> 1])

=============================================================================
